---- MODULE Spec2Model ----
(***************************************************************************)
(* Model of stocks_dashboard.py: the Streamlit script that fetches price   *)
(* history, normalises it, adds SMA/EMA columns, computes summary metrics  *)
(* and renders a main chart plus a four-symbol sidebar watchlist.          *)
(*                                                                         *)
(* A DataFrame is a record [index, columns, col]: index describes the row  *)
(* index (its class, name, timezone and values), columns is the ordered    *)
(* list of column labels, col maps a label to the cell sequence.           *)
(* A float is a record [k, n, d]: k = "fin" with the exact fraction n/d,   *)
(* or k = "nan", "inf", "-inf" (IEEE specials; rounding is not modelled).  *)
(* A call's outcome is a record [ok, val, err]: err names the exception.   *)
(***************************************************************************)
EXTENDS Integers, Sequences, FiniteSets, TLC

VARIABLES
    pc,             \* position of the script run
    ticker,         \* st.sidebar.text_input('Ticker')
    time_period,    \* st.sidebar.selectbox('Time Period')
    chart_type,     \* st.sidebar.selectbox('Chart Type')
    indicators,     \* st.sidebar.multiselect('Technical Indicators')
    update,         \* st.sidebar.button('Update') of this run
    data,           \* main-chart DataFrame
    metrics,        \* tuple returned by calculate_metrics
    real_time_data, \* watchlist DataFrame of the current symbol
    wi,             \* position of the watchlist loop in stock_symbols
    out,            \* Streamlit elements emitted in this run, in order
    queries,        \* yf.download calls issued in this run, in order
    trace,          \* completed pipeline stages of this run, in order
    clock,          \* datetime.now(), in hours
    err,            \* uncaught exception that ended the run ("" if none)
    fin,            \* argument of the function under test (function specs)
    fout,           \* its results, in call order (function specs)
    fstep           \* number of calls made (function specs)

vars == <<pc, ticker, time_period, chart_type, indicators, update, data,
          metrics, real_time_data, wi, out, queries, trace, clock, err,
          fin, fout, fstep>>

(***************************************************************************)
(* Bounds of the model.                                                    *)
(***************************************************************************)
MaxRows == 4        \* rows of a table given to calculate_metrics
MaxIndRows == 22    \* rows of a table given to add_technical_indicators
MaxStamps == 2      \* rows of a table given to process_data
MaxHour == 6        \* largest wall-clock hour of a raw timestamp
StartClock == 200   \* datetime.now() when a run starts, in hours

(***************************************************************************)
(* Arithmetic.                                                             *)
(***************************************************************************)
Abs(x) == IF x < 0 THEN -x ELSE x

RECURSIVE GCD(_, _)
GCD(a, b) == IF b = 0 THEN a ELSE GCD(b, a % b)

NaN == [k |-> "nan", n |-> 0, d |-> 1]
PosInf == [k |-> "inf", n |-> 0, d |-> 1]
NegInf == [k |-> "-inf", n |-> 0, d |-> 1]

\* The fraction n/d (d # 0) in lowest terms with a positive denominator.
Frac(n, d) ==
    LET g == GCD(Abs(n), Abs(d))
        s == IF d < 0 THEN -1 ELSE 1
    IN  [k |-> "fin", n |-> (s * n) \div g, d |-> (s * d) \div g]

\* float(x) of an integer cell
ToFloat(x) == Frac(x, 1)

IsNaN(x) == x.k = "nan"
IsFinite(x) == x.k = "fin"

Sign(x) ==
    CASE x.k = "inf" -> 1
      [] x.k = "-inf" -> -1
      [] OTHER -> IF x.n > 0 THEN 1 ELSE IF x.n < 0 THEN -1 ELSE 0

FSub(a, b) ==
    IF IsFinite(a) /\ IsFinite(b) THEN Frac(a.n * b.d - b.n * a.d, a.d * b.d)
    ELSE IF IsNaN(a) \/ IsNaN(b) \/ a.k = b.k THEN NaN
    ELSE IF IsFinite(b) THEN a
    ELSE IF b.k = "inf" THEN NegInf ELSE PosInf

\* numpy.float64 division: a zero divisor yields inf, -inf or nan, no exception
NpDiv(a, b) ==
    IF IsNaN(a) \/ IsNaN(b) THEN NaN
    ELSE IF IsFinite(a) /\ IsFinite(b) THEN
        IF b.n = 0
        THEN IF a.n = 0 THEN NaN ELSE IF a.n > 0 THEN PosInf ELSE NegInf
        ELSE Frac(a.n * b.d, a.d * b.n)
    ELSE IF IsFinite(a) THEN ToFloat(0)
    ELSE IF ~IsFinite(b) THEN NaN
    ELSE IF Sign(a) * (IF b.n < 0 THEN -1 ELSE 1) > 0 THEN PosInf ELSE NegInf

FMul(a, b) ==
    IF IsNaN(a) \/ IsNaN(b) THEN NaN
    ELSE IF IsFinite(a) /\ IsFinite(b) THEN Frac(a.n * b.n, a.d * b.d)
    ELSE IF Sign(a) * Sign(b) = 0 THEN NaN
    ELSE IF Sign(a) * Sign(b) > 0 THEN PosInf ELSE NegInf

RECURSIVE SeqSum(_)
SeqSum(s) == IF s = <<>> THEN 0 ELSE Head(s) + SeqSum(Tail(s))

RECURSIVE SeqMax(_)
SeqMax(s) ==
    IF Len(s) = 1 THEN s[1]
    ELSE LET m == SeqMax(Tail(s)) IN IF s[1] >= m THEN s[1] ELSE m

RECURSIVE SeqMin(_)
SeqMin(s) ==
    IF Len(s) = 1 THEN s[1]
    ELSE LET m == SeqMin(Tail(s)) IN IF s[1] <= m THEN s[1] ELSE m

(***************************************************************************)
(* Call outcomes.                                                          *)
(***************************************************************************)
Ok(v) == [ok |-> TRUE, val |-> v, err |-> ""]
Raise(v, e) == [ok |-> FALSE, val |-> v, err |-> e]

(***************************************************************************)
(* DataFrames.                                                             *)
(***************************************************************************)
InSeq(x, s) == \E i \in 1..Len(s) : s[i] = x

NRows(df) == Len(df.index.values)

\* DataFrame.empty: some axis has length zero
IsEmpty(df) == NRows(df) = 0 \/ Len(df.columns) = 0

RangeIndex(n) ==
    [kind |-> "RangeIndex", name |-> "", tz |-> "",
     values |-> [i \in 1..n |-> i - 1]]

\* Offset from UTC, in hours, of the zones that occur (standard time).
UtcOffset(tz) == IF tz = "US/Eastern" THEN -5 ELSE 0

\* DatetimeIndex.tz_localize('UTC') of a naive index: same wall clock, now UTC
TzLocalizeUTC(idx) == [idx EXCEPT !.tz = "UTC"]

\* DatetimeIndex.tz_convert(tz) of an aware index: same instants, wall clock of tz
TzConvert(idx, tz) ==
    [idx EXCEPT !.tz = tz,
                !.values = [i \in 1..Len(idx.values) |->
                               idx.values[i] + UtcOffset(tz) - UtcOffset(idx.tz)]]

\* The index as a column of timestamps [wall, tz].
IndexCells(idx) == [i \in 1..Len(idx.values) |-> [wall |-> idx.values[i], tz |-> idx.tz]]

\* DataFrame.reset_index(inplace=True): the index becomes the first column,
\* labelled by the index's name ("index" when it has none).
ResetIndex(df) ==
    LET label == IF df.index.name = "" THEN "index" ELSE df.index.name
    IN  IF InSeq(label, df.columns)
        THEN Raise(df, "ValueError")
        ELSE Ok([index |-> RangeIndex(NRows(df)),
                 columns |-> <<label>> \o df.columns,
                 col |-> [c \in DOMAIN df.col \cup {label} |->
                             IF c = label THEN IndexCells(df.index) ELSE df.col[c]]])

\* DataFrame.rename(columns={old: new}, inplace=True)
RenameColumn(df, old, new) ==
    IF ~InSeq(old, df.columns) THEN df
    ELSE [df EXCEPT
            !.columns = [i \in 1..Len(df.columns) |->
                            IF df.columns[i] = old THEN new ELSE df.columns[i]],
            !.col = [c \in (DOMAIN df.col \ {old}) \cup {new} |->
                        IF c = new THEN df.col[old] ELSE df.col[c]]]

\* df[label] = cells
SetColumn(df, label, cells) ==
    [df EXCEPT
        !.columns = IF InSeq(label, df.columns) THEN df.columns
                    ELSE Append(df.columns, label),
        !.col = [c \in DOMAIN df.col \cup {label} |->
                    IF c = label THEN cells ELSE df.col[c]]]

(***************************************************************************)
(* process_data                                                            *)
(***************************************************************************)
process_data(df) ==
    IF df.index.kind # "DatetimeIndex"
    THEN Raise(df, "AttributeError")            \* data.index.tzinfo
    ELSE LET loc == IF df.index.tz = "" THEN TzLocalizeUTC(df.index) ELSE df.index
             conv == TzConvert(loc, "US/Eastern")
             r == ResetIndex([df EXCEPT !.index = conv])
         IN  IF r.ok THEN Ok(RenameColumn(r.val, "Date", "Datetime")) ELSE r

(***************************************************************************)
(* calculate_metrics                                                       *)
(***************************************************************************)
HasColumn(df, c) == InSeq(c, df.columns)

\* A forgotten scaling to percent.
PctChangeUnscaled(change, prev_close) == NpDiv(change, prev_close)

\* Line 48: (change / prev_close) * 100 on numpy.float64 scalars
PctChange(change, prev_close) == FMul(NpDiv(change, prev_close), ToFloat(100))

\* Lines 38-62 on a table with rows and the four columns.
MetricsOf(df) ==
    LET last_close == ToFloat(df.col["Close"][NRows(df)])
        prev_close == ToFloat(df.col["Close"][1])
        change == FSub(last_close, prev_close)
    IN  [last_close |-> last_close,
         change |-> change,
         pct_change |-> PctChange(change, prev_close),
         high |-> ToFloat(SeqMax(df.col["High"])),
         low |-> ToFloat(SeqMin(df.col["Low"])),
         volume |-> ToFloat(SeqSum(df.col["Volume"]))]

\* A guard that answers zeros for a table without rows.
calculate_metrics_zeros(df) ==
    IF NRows(df) = 0
    THEN Ok([last_close |-> ToFloat(0), change |-> ToFloat(0), pct_change |-> ToFloat(0),
             high |-> ToFloat(0), low |-> ToFloat(0), volume |-> ToFloat(0)])
    ELSE Ok(MetricsOf(df))

calculate_metrics(df) ==
    IF ~HasColumn(df, "Close") THEN Raise(<<>>, "KeyError")
    ELSE IF NRows(df) = 0 THEN Raise(<<>>, "IndexError")   \* .iloc[-1]
    ELSE IF ~HasColumn(df, "High") \/ ~HasColumn(df, "Low") \/ ~HasColumn(df, "Volume")
    THEN Raise(<<>>, "KeyError")
    ELSE Ok(MetricsOf(df))

(***************************************************************************)
(* add_technical_indicators                                                *)
(***************************************************************************)
Window == 20

\* Series.rolling(window, min_periods).mean(): the mean of the observations in
\* the trailing window, NaN while fewer than min_periods of them exist.
RollingMean(close, window, min_periods) ==
    [i \in 1..Len(close) |->
        LET lo == IF i - window + 1 < 1 THEN 1 ELSE i - window + 1
            obs == i - lo + 1
        IN  IF obs < min_periods THEN NaN
            ELSE Frac(SeqSum(SubSeq(close, lo, i)), obs)]

\* Series.ewm(span, adjust=False) recursion y[1] = x[1],
\* y[i] = (1 - a) y[i-1] + a x[i] with a = 2 / (span + 1), in thousandths
\* (rounded down).
RECURSIVE EwmRaw(_, _, _)
EwmRaw(close, span, i) ==
    IF i = 1 THEN close[1] * 1000
    ELSE ((span - 1) * EwmRaw(close, span, i - 1) + 2 * close[i] * 1000) \div (span + 1)

\* Series.ewm(span, min_periods, adjust=False).mean()
EwmMean(close, span, min_periods) ==
    [i \in 1..Len(close) |->
        IF i < min_periods THEN NaN ELSE Frac(EwmRaw(close, span, i), 1000)]

\* The indicator built with fillna=True: no minimum number of observations.
sma_indicator_fillna(close, window) == RollingMean(close, window, 0)

\* ta.trend.SMAIndicator(close, window).sma_indicator(), fillna=False
sma_indicator(close, window) == RollingMean(close, window, window)

\* ta.trend.EMAIndicator(close, window).ema_indicator(), fillna=False
ema_indicator(close, window) == EwmMean(close, window, window)

add_technical_indicators(df) ==
    IF ~HasColumn(df, "Close") THEN Raise(df, "KeyError")
    ELSE LET close_series == df.col["Close"]
             withSma == SetColumn(df, "SMA_20", sma_indicator(close_series, Window))
         IN  Ok(SetColumn(withSma, "EMA_20", ema_indicator(close_series, Window)))

(***************************************************************************)
(* fetch_stock_data                                                        *)
(***************************************************************************)
DaysBack == 7

\* The call without the 1wk special case.
DownloadCallByPeriod(tk, period, interval, now) ==
    [ticker |-> tk, by |-> "period", period |-> period, interval |-> interval,
     start |-> 0, end |-> 0]

\* The keyword arguments of the yf.download call (unused ones left empty).
DownloadCall(tk, period, interval, now) ==
    IF period = "1wk"
    THEN [ticker |-> tk, by |-> "window", period |-> "", interval |-> interval,
          start |-> now - DaysBack * 24, end |-> now]
    ELSE [ticker |-> tk, by |-> "period", period |-> period, interval |-> interval,
          start |-> 0, end |-> 0]

\* Lines 21-22: data.columns.get_level_values(0) when the columns are a
\* MultiIndex of (field, ticker) labels. raw is the frame yf.download returned.
FlattenColumns(raw) ==
    IF raw.multi
    THEN [index |-> raw.index,
          columns |-> [i \in 1..Len(raw.columns) |-> raw.columns[i][1]],
          col |-> [c \in {l[1] : l \in DOMAIN raw.col} |->
                      raw.col[CHOOSE l \in DOMAIN raw.col : l[1] = c]]]
    ELSE [index |-> raw.index, columns |-> raw.columns, col |-> raw.col]

interval_mapping(period) ==
    CASE period = "1d" -> "1m"
      [] period = "1wk" -> "30m"
      [] period = "1mo" -> "1d"
      [] period = "1y" -> "1wk"
      [] period = "max" -> "1wk"

(***************************************************************************)
(* Watchlist quote                                                         *)
(***************************************************************************)
stock_symbols == <<"AAPL", "GOOGL", "AMZN", "MSFT">>

\* Lines 159-173: the body of the try block, on Python floats
\* (a zero divisor raises ZeroDivisionError).
quote(df) ==
    IF ~HasColumn(df, "Close") THEN Raise(<<>>, "KeyError")
    ELSE IF NRows(df) = 0 THEN Raise(<<>>, "IndexError")
    ELSE IF ~HasColumn(df, "Open") THEN Raise(<<>>, "KeyError")
    ELSE LET last_price == ToFloat(df.col["Close"][NRows(df)])
             open_price == ToFloat(df.col["Open"][1])
             change == FSub(last_price, open_price)
         IN  IF open_price.n = 0 THEN Raise(<<>>, "ZeroDivisionError")
             ELSE Ok([last_price |-> last_price,
                      change |-> change,
                      pct_change |-> FMul(NpDiv(change, open_price), ToFloat(100))])

(***************************************************************************)
(* The provider (yfinance), outside the repository: what yf.download may   *)
(* answer to a call.  It raises, or returns a frame indexed by timestamp   *)
(* ("Datetime", UTC, for intraday intervals; "Date", naive, otherwise),    *)
(* possibly with no rows, possibly malformed.                              *)
(***************************************************************************)
Fields == <<"Adj Close", "Close", "High", "Low", "Open", "Volume">>

Bar(o, h, l, c, v) ==
    [f \in {"Adj Close", "Close", "High", "Low", "Open", "Volume"} |->
        CASE f = "Open" -> o [] f = "High" -> h [] f = "Low" -> l
          [] f = "Volume" -> v [] OTHER -> c]

Intraday(interval) == interval \in {"1m", "30m"}

StampIndex(interval, n) ==
    [kind |-> "DatetimeIndex",
     name |-> IF Intraday(interval) THEN "Datetime" ELSE "Date",
     tz |-> IF Intraday(interval) THEN "UTC" ELSE "",
     values |-> [i \in 1..n |-> 14 + i]]

\* A frame with single-level columns.
Frame(index, labels, bars) ==
    [multi |-> FALSE, index |-> index, columns |-> labels,
     col |-> [c \in {labels[i] : i \in 1..Len(labels)} |->
                 [i \in 1..Len(bars) |-> bars[i][c]]]]

\* The same frame with (field, ticker) column labels.
MultiFrame(index, labels, bars, tk) ==
    [multi |-> TRUE, index |-> index,
     columns |-> [i \in 1..Len(labels) |-> <<labels[i], tk>>],
     col |-> [l \in {<<labels[i], tk>> : i \in 1..Len(labels)} |->
                 [i \in 1..Len(bars) |-> bars[i][l[1]]]]]

GoodBars == <<Bar(100, 103, 99, 102, 10), Bar(102, 106, 101, 105, 20)>>
ZeroBars == <<Bar(0, 2, 0, 0, 5), Bar(1, 6, 1, 5, 5)>>
OneBar == <<Bar(50, 51, 49, 50, 7)>>
NoCloseFields == <<"High", "Low", "Open", "Volume">>

Responses(call) ==
    LET idx(n) == StampIndex(call.interval, n)
    IN  { [raises |-> TRUE, df |-> Frame(idx(0), Fields, <<>>)],
          [raises |-> FALSE, df |-> Frame(idx(0), Fields, <<>>)],
          [raises |-> FALSE, df |-> Frame(idx(2), Fields, GoodBars)],
          [raises |-> FALSE, df |-> MultiFrame(idx(1), Fields, OneBar, call.ticker)],
          [raises |-> FALSE, df |-> Frame(idx(2), Fields, ZeroBars)],
          [raises |-> FALSE, df |-> Frame(idx(1), NoCloseFields, OneBar)],
          [raises |-> FALSE,
           df |-> Frame([idx(1) EXCEPT !.kind = "Index", !.tz = ""], Fields, OneBar)],
          [raises |-> FALSE, df |-> Frame([idx(1) EXCEPT !.name = ""], Fields, OneBar)] }

(***************************************************************************)
(* The script run (lines 82-184).                                          *)
(***************************************************************************)
Tickers == {"ADBE", "AAPL"}
Periods == {"1d", "1wk", "1mo", "1y", "max"}
ChartTypes == {"Candlestick", "Line"}
IndicatorChoices == {<<>>, <<"SMA 20", "EMA 20">>}

NoFrame == [index |-> RangeIndex(0), columns |-> <<>>, col |-> <<>>]

Element(area, kind, label, value) ==
    [area |-> area, kind |-> kind, label |-> label, value |-> value]

\* A fresh run of the script with the widget values of the session.
StartRun(tk, period, ctype, inds, pressed) ==
    /\ ticker' = tk
    /\ time_period' = period
    /\ chart_type' = ctype
    /\ indicators' = inds
    /\ update' = pressed
    /\ pc' = IF pressed THEN "main_fetch" ELSE "watch_fetch"
    /\ data' = NoFrame
    /\ metrics' = <<>>
    /\ real_time_data' = NoFrame
    /\ wi' = 1
    /\ out' = <<>>
    /\ queries' = <<>>
    /\ trace' = <<>>
    /\ clock' = StartClock
    /\ err' = ""

\* The first page load: every widget at its default, the button not pressed.
Init ==
    /\ ticker = "ADBE"
    /\ time_period = "1d"
    /\ chart_type = "Candlestick"
    /\ indicators = <<>>
    /\ update = FALSE
    /\ pc = "watch_fetch"
    /\ data = NoFrame
    /\ metrics = <<>>
    /\ real_time_data = NoFrame
    /\ wi = 1
    /\ out = <<>>
    /\ queries = <<>>
    /\ trace = <<>>
    /\ clock = StartClock
    /\ err = ""
    /\ fin = <<>>
    /\ fout = <<>>
    /\ fstep = 0

\* An exception swallowed before the watchlist.
AbortCaught(e) ==
    /\ pc' = "watch_fetch"
    /\ err' = e

\* An exception nobody catches ends the run.
Abort(e) ==
    /\ pc' = "aborted"
    /\ err' = e

\* A completed stage of the main pipeline or of a watchlist symbol's.
Stage(pipe, sym, name) == [pipe |-> pipe, symbol |-> sym, stage |-> name]

\* What yf.download answered: it raised, or returned no rows, or rows.
Answer(r) ==
    IF r.raises THEN "error" ELSE IF NRows(r.df) = 0 THEN "empty" ELSE "data"

Issued(pipe, call, now, r) ==
    [pipe |-> pipe, call |-> call, at |-> now, answer |-> Answer(r)]

\* Line 102: fetch_stock_data(ticker, time_period, interval_mapping[time_period])
MainFetch ==
    /\ pc = "main_fetch"
    /\ LET call == DownloadCall(ticker, time_period, interval_mapping(time_period), clock)
       IN  /\ clock' = clock + 1
           /\ \E r \in Responses(call) :
                /\ queries' = Append(queries, Issued("main", call, clock, r))
                /\ IF r.raises
                   THEN /\ Abort("FetchError")
                        /\ UNCHANGED <<data, trace>>
                   ELSE /\ data' = FlattenColumns(r.df)
                        /\ trace' = Append(trace, Stage("main", ticker, "fetch"))
                        /\ pc' = "main_process"
                        /\ err' = ""
    /\ UNCHANGED <<ticker, time_period, chart_type, indicators, update, metrics,
                   real_time_data, wi, out, fin, fout, fstep>>

\* Line 103
MainProcess ==
    /\ pc = "main_process"
    /\ LET r == process_data(data)
       IN  IF r.ok
           THEN /\ data' = r.val
                /\ trace' = Append(trace, Stage("main", ticker, "normalize"))
                /\ pc' = "main_indicators"
                /\ err' = ""
           ELSE /\ Abort(r.err)
                /\ UNCHANGED <<data, trace>>
    /\ UNCHANGED <<ticker, time_period, chart_type, indicators, update, metrics,
                   real_time_data, wi, out, queries, clock, fin, fout, fstep>>

\* Line 104
MainIndicators ==
    /\ pc = "main_indicators"
    /\ LET r == add_technical_indicators(data)
       IN  IF r.ok
           THEN /\ data' = r.val
                /\ trace' = Append(trace, Stage("main", ticker, "indicators"))
                /\ pc' = "main_metrics"
                /\ err' = ""
           ELSE /\ Abort(r.err)
                /\ UNCHANGED <<data, trace>>
    /\ UNCHANGED <<ticker, time_period, chart_type, indicators, update, metrics,
                   real_time_data, wi, out, queries, clock, fin, fout, fstep>>

\* Line 106
MainMetrics ==
    /\ pc = "main_metrics"
    /\ LET r == calculate_metrics(data)
       IN  IF r.ok
           THEN /\ metrics' = r.val
                /\ trace' = Append(trace, Stage("main", ticker, "metrics"))
                /\ pc' = "main_display"
                /\ err' = ""
           ELSE /\ Abort(r.err)
                /\ UNCHANGED <<metrics, trace>>
    /\ UNCHANGED <<ticker, time_period, chart_type, indicators, update, data,
                   real_time_data, wi, out, queries, clock, fin, fout, fstep>>

\* Lines 108-113: the four metric displays
MainDisplay ==
    /\ pc = "main_display"
    /\ out' = out \o << Element("main", "metric", "Last Price",
                                [value |-> metrics.last_close, change |-> metrics.change,
                                 pct_change |-> metrics.pct_change]),
                        Element("main", "metric", "High", [value |-> metrics.high]),
                        Element("main", "metric", "Low", [value |-> metrics.low]),
                        Element("main", "metric", "Volume", [value |-> metrics.volume]) >>
    /\ trace' = Append(trace, Stage("main", ticker, "display"))
    /\ pc' = "main_chart"
    /\ UNCHANGED <<ticker, time_period, chart_type, indicators, update, data, metrics,
                   real_time_data, wi, queries, clock, err, fin, fout, fstep>>

\* The columns lines 116-148 read: a missing one raises KeyError.
ChartColumns ==
    {"Datetime", "Close", "Open", "High", "Low", "Volume", "SMA_20", "EMA_20"}

\* Lines 116-148: the chart, its overlays and the two tables
MainChart ==
    /\ pc = "main_chart"
    /\ IF \A c \in ChartColumns : HasColumn(data, c)
       THEN /\ out' = out \o << Element("main", "chart", chart_type,
                                        [title |-> <<ticker, time_period>>,
                                         overlays |-> indicators]),
                                Element("main", "dataframe", "Historical Data",
                                        [rows |-> NRows(data)]),
                                Element("main", "dataframe", "Technical Indicators",
                                        [rows |-> NRows(data)]) >>
            /\ trace' = Append(trace, Stage("main", ticker, "chart"))
            /\ pc' = "watch_fetch"
            /\ err' = ""
       ELSE /\ Abort("KeyError")
            /\ UNCHANGED <<out, trace>>
    /\ UNCHANGED <<ticker, time_period, chart_type, indicators, update, data, metrics,
                   real_time_data, wi, queries, clock, fin, fout, fstep>>

\* A loop that asks for the same symbol again.
NextSymbolRetry ==
    /\ wi' = wi
    /\ pc' = "watch_fetch"
    /\ err' = ""

\* The for loop moves to the next symbol, or past the loop.
NextSymbol ==
    /\ wi' = wi + 1
    /\ pc' = IF wi = Len(stock_symbols) THEN "about" ELSE "watch_fetch"
    /\ err' = ""

\* Lines 155-156: fetch_stock_data(symbol, '1d', '1m') and the emptiness test
WatchFetch ==
    /\ pc = "watch_fetch"
    /\ LET symbol == stock_symbols[wi]
           call == DownloadCall(symbol, "1d", "1m", clock)
       IN  /\ clock' = clock + 1
           /\ \E r \in Responses(call) :
                /\ queries' = Append(queries, Issued("watch", call, clock, r))
                /\ IF r.raises
                   THEN /\ Abort("FetchError")
                        /\ UNCHANGED <<real_time_data, trace, wi>>
                   ELSE /\ real_time_data' = FlattenColumns(r.df)
                        /\ trace' = Append(trace, Stage("watch", symbol, "fetch"))
                        /\ IF IsEmpty(FlattenColumns(r.df))
                           THEN NextSymbol
                           ELSE /\ pc' = "watch_process"
                                /\ err' = ""
                                /\ wi' = wi
    /\ UNCHANGED <<ticker, time_period, chart_type, indicators, update, data, metrics,
                   out, fin, fout, fstep>>

\* Line 157: process_data, outside the try block
WatchProcess ==
    /\ pc = "watch_process"
    /\ LET r == process_data(real_time_data)
       IN  IF r.ok
           THEN /\ real_time_data' = r.val
                /\ trace' = Append(trace, Stage("watch", stock_symbols[wi], "normalize"))
                /\ pc' = "watch_quote"
                /\ err' = ""
           ELSE /\ Abort(r.err)
                /\ UNCHANGED <<real_time_data, trace>>
    /\ UNCHANGED <<ticker, time_period, chart_type, indicators, update, data, metrics,
                   wi, out, queries, clock, fin, fout, fstep>>

\* Lines 158-178: the quote and its st.sidebar.metric, or the except branch
WatchQuote ==
    /\ pc = "watch_quote"
    /\ LET symbol == stock_symbols[wi]
           r == quote(real_time_data)
       IN  IF r.ok
           THEN /\ out' = Append(out, Element("sidebar", "metric", symbol, r.val))
                /\ trace' = trace \o <<Stage("watch", symbol, "metrics"), Stage("watch", symbol, "display")>>
           ELSE /\ out' = Append(out, Element("sidebar", "write", symbol, [exc |-> r.err]))
                /\ trace' = trace
    /\ NextSymbol
    /\ UNCHANGED <<ticker, time_period, chart_type, indicators, update, data, metrics,
                   real_time_data, queries, clock, fin, fout, fstep>>

\* Lines 183-184: the end of the script
About ==
    /\ pc = "about"
    /\ out' = Append(out, Element("sidebar", "info", "About", [rows |-> 0]))
    /\ pc' = "done"
    /\ UNCHANGED <<ticker, time_period, chart_type, indicators, update, data, metrics,
                   real_time_data, wi, queries, trace, clock, err, fin, fout, fstep>>

\* Streamlit runs the script again on the next interaction: one widget gets a
\* new value (the button then reads False), or the Update button is pressed.
Rerun ==
    /\ pc \in {"done", "aborted"}
    /\ \/ \E tk \in Tickers \ {ticker} :
            StartRun(tk, time_period, chart_type, indicators, FALSE)
       \/ \E period \in Periods \ {time_period} :
            StartRun(ticker, period, chart_type, indicators, FALSE)
       \/ \E ctype \in ChartTypes \ {chart_type} :
            StartRun(ticker, time_period, ctype, indicators, FALSE)
       \/ \E inds \in IndicatorChoices \ {indicators} :
            StartRun(ticker, time_period, chart_type, inds, FALSE)
       \/ StartRun(ticker, time_period, chart_type, indicators, TRUE)
    /\ UNCHANGED <<fin, fout, fstep>>

Next ==
    \/ MainFetch
    \/ MainProcess
    \/ MainIndicators
    \/ MainMetrics
    \/ MainDisplay
    \/ MainChart
    \/ WatchFetch
    \/ WatchProcess
    \/ WatchQuote
    \/ About
    \/ Rerun

Spec == Init /\ [][Next]_vars

(***************************************************************************)
(* Function specifications: one function applied to bounded inputs, the    *)
(* script itself idle at its first page load.                              *)
(***************************************************************************)
Idle ==
    /\ ticker = "ADBE"
    /\ time_period = "1d"
    /\ chart_type = "Candlestick"
    /\ indicators = <<>>
    /\ update = FALSE
    /\ pc = "idle"
    /\ data = NoFrame
    /\ metrics = <<>>
    /\ real_time_data = NoFrame
    /\ wi = 1
    /\ out = <<>>
    /\ queries = <<>>
    /\ trace = <<>>
    /\ clock = StartClock
    /\ err = ""

\* Sequences over S of length at most n.
SeqsUpTo(S, n) == UNION {[1..k -> S] : k \in 0..n}

\* The table the main pipeline holds after lines 102-103 for daily bars.
Canonical(bars) ==
    process_data(FlattenColumns(Frame(StampIndex("1d", Len(bars)), Fields, bars))).val

SampleBars ==
    { Bar(100, 101, 98, 100, 10), Bar(101, 110, 100, 102, 20), Bar(102, 103, 90, 99, 0),
      Bar(99, 106, 99, 105, 5), Bar(0, 1, 0, 0, 3) }

\* ---- calculate_metrics ----
InitMetrics ==
    /\ Idle
    /\ fin \in {Canonical(bars) : bars \in SeqsUpTo(SampleBars, MaxRows)}
    /\ fout = <<>>
    /\ fstep = 0

CallMetrics ==
    /\ fstep = 0
    /\ fout' = <<calculate_metrics(fin)>>
    /\ fstep' = 1
    /\ UNCHANGED <<fin, pc, ticker, time_period, chart_type, indicators, update, data,
                   metrics, real_time_data, wi, out, queries, trace, clock, err>>

SpecMetrics == InitMetrics /\ [][CallMetrics]_vars

\* ---- process_data ----
\* Strictly increasing wall-clock hours.
Increasing(s) == \A i \in 1..(Len(s) - 1) : s[i] < s[i + 1]

RawStamps == {s \in SeqsUpTo(0..MaxHour, MaxStamps) : Increasing(s)}

RawFrame(name, tz, stamps) ==
    Frame([kind |-> "DatetimeIndex", name |-> name, tz |-> tz, values |-> stamps],
          Fields, [i \in 1..Len(stamps) |-> Bar(100 + i, 102 + i, 99 + i, 101 + i, i)])

InitNormalize ==
    /\ Idle
    /\ fin \in {FlattenColumns(RawFrame(name, tz, stamps)) :
                    name \in {"Date", "Datetime"},
                    tz \in {"", "UTC", "US/Eastern"},
                    stamps \in RawStamps}
    /\ fout = <<>>
    /\ fstep = 0

\* process_data(raw)
CallProcess ==
    /\ fstep = 0
    /\ fout' = <<process_data(fin)>>
    /\ fstep' = 1
    /\ UNCHANGED <<fin, pc, ticker, time_period, chart_type, indicators, update, data,
                   metrics, real_time_data, wi, out, queries, trace, clock, err>>

\* process_data(process_data(raw))
CallProcessAgain ==
    /\ fstep = 1
    /\ fout[1].ok
    /\ fout' = Append(fout, process_data(fout[1].val))
    /\ fstep' = 2
    /\ UNCHANGED <<fin, pc, ticker, time_period, chart_type, indicators, update, data,
                   metrics, real_time_data, wi, out, queries, trace, clock, err>>

NextNormalize ==
    \/ CallProcess
    \/ CallProcessAgain

SpecNormalize == InitNormalize /\ [][NextNormalize]_vars

\* ---- add_technical_indicators ----
ClosePattern(base, step, i) == base + ((i * step) % 7)

PatternBars(base, step, n) ==
    [i \in 1..n |->
        LET c == ClosePattern(base, step, i) IN Bar(c, c + 1, c - 1, c, i)]

InitIndicators ==
    /\ Idle
    /\ fin \in {Canonical(PatternBars(base, step, n)) :
                    base \in {10, 100}, step \in 0..3, n \in 0..MaxIndRows}
    /\ fout = <<>>
    /\ fstep = 0

CallIndicators ==
    /\ fstep = 0
    /\ fout' = <<add_technical_indicators(fin)>>
    /\ fstep' = 1
    /\ UNCHANGED <<fin, pc, ticker, time_period, chart_type, indicators, update, data,
                   metrics, real_time_data, wi, out, queries, trace, clock, err>>

SpecIndicators == InitIndicators /\ [][CallIndicators]_vars

(***************************************************************************)
(* Properties of the functions.                                            *)
(***************************************************************************)
\* The sum of the first k cells, from the left.
RECURSIVE SumFirst(_, _)
SumFirst(s, k) == IF k = 0 THEN 0 ELSE SumFirst(s, k - 1) + s[k]

Whole(x) == [k |-> "fin", n |-> x, d |-> 1]

\* C3 (as claimed): process_data is idempotent: applied to its own output it
\* succeeds and returns a table equal to that output.
C3_Idempotent ==
    fstep = 2 => fout[2].ok /\ fout[2].val = fout[1].val

\* C4: on a table with rows and a non-zero first Close, calculate_metrics
\* returns the last Close, last minus first Close, 100 * change / first Close,
\* the largest High, the smallest Low and the total Volume; one row gives
\* change 0 and 0 percent; Close = [100, 102, 99, 105] gives 105, 5 and 5.
C4_Metrics ==
    (fstep = 1 /\ NRows(fin) >= 1 /\ fin.col["Close"][1] # 0) =>
        LET n == NRows(fin)
            first == fin.col["Close"][1]
            last == fin.col["Close"][n]
            m == fout[1].val
        IN  /\ fout[1].ok
            /\ m.last_close = Whole(last)
            /\ m.change = Whole(last - first)
            /\ m.pct_change.k = "fin"
            /\ m.pct_change.d > 0
            /\ m.pct_change.n * first = 100 * (last - first) * m.pct_change.d
            /\ m.high.k = "fin" /\ m.high.d = 1
            /\ \A i \in 1..n : fin.col["High"][i] <= m.high.n
            /\ \E i \in 1..n : fin.col["High"][i] = m.high.n
            /\ m.low.k = "fin" /\ m.low.d = 1
            /\ \A i \in 1..n : fin.col["Low"][i] >= m.low.n
            /\ \E i \in 1..n : fin.col["Low"][i] = m.low.n
            /\ m.volume = Whole(SumFirst(fin.col["Volume"], n))
            /\ (n = 1 => m.change = Whole(0) /\ m.pct_change = Whole(0))
            /\ (fin.col["Close"] = <<100, 102, 99, 105>> =>
                    /\ m.last_close = Whole(105)
                    /\ m.change = Whole(5)
                    /\ m.pct_change = Whole(5))

C4_Witness ==
    /\ fstep = 1
    /\ fin.col["Close"] = <<100, 102, 99, 105>>
    /\ fout[1].ok
    /\ fout[1].val.pct_change = Whole(5)
    /\ fout[1].val.high = Whole(110)

\* C5: after add_technical_indicators the columns SMA_20 and EMA_20 exist
\* with one cell per row; in rows 1-19 both are NaN (so in every row of a
\* table with fewer than 20 rows); from row 20 on both are defined and
\* SMA_20 is the mean of Close over the 20 rows ending there.
C5_Indicators ==
    fstep = 1 =>
        LET n == NRows(fin)
            r == fout[1]
        IN  /\ r.ok
            /\ HasColumn(r.val, "SMA_20")
            /\ HasColumn(r.val, "EMA_20")
            /\ Len(r.val.col["SMA_20"]) = n
            /\ Len(r.val.col["EMA_20"]) = n
            /\ \A i \in 1..n :
                 LET sma == r.val.col["SMA_20"][i]
                     ema == r.val.col["EMA_20"][i]
                 IN  IF i < 20
                     THEN IsNaN(sma) /\ IsNaN(ema)
                     ELSE /\ IsFinite(sma) /\ IsFinite(ema)
                          /\ sma.d > 0
                          /\ sma.n * 20 =
                               sma.d * (SumFirst(fin.col["Close"], i)
                                          - SumFirst(fin.col["Close"], i - 20))

C5_Witness ==
    /\ fstep = 1
    /\ NRows(fin) >= 21
    /\ fout[1].ok
    /\ IsNaN(fout[1].val.col["SMA_20"][19])
    /\ IsNaN(fout[1].val.col["EMA_20"][19])
    /\ IsFinite(fout[1].val.col["SMA_20"][20])
    /\ IsFinite(fout[1].val.col["EMA_20"][21])
    /\ fout[1].val.col["SMA_20"][20] # fout[1].val.col["SMA_20"][21]

\* C6 (as claimed): with a first Close of 0, calculate_metrics raises or
\* returns a NaN pct_change, whatever the last Close; with a non-zero first
\* Close no returned value is NaN.
C6_ZeroBaseline ==
    (fstep = 1 /\ NRows(fin) >= 1) =>
        IF fin.col["Close"][1] = 0
        THEN ~fout[1].ok \/ IsNaN(fout[1].val.pct_change)
        ELSE /\ fout[1].ok
             /\ \A f \in DOMAIN fout[1].val : ~IsNaN(fout[1].val[f])

(***************************************************************************)
(* Properties of the script run.                                           *)
(***************************************************************************)
MainQueries == SelectSeq(queries, LAMBDA q : q.pipe = "main")
WatchQueries == SelectSeq(queries, LAMBDA q : q.pipe = "watch")

Terminal == pc \in {"done", "aborted"}

\* The watchlist loop was entered: its first statement issues a query.
WatchReached == Len(WatchQueries) > 0

\* The sidebar outputs of a watchlist symbol: its quote or its error message.
SidebarFor(sym) ==
    {i \in 1..Len(out) : /\ out[i].area = "sidebar"
                         /\ out[i].kind \in {"metric", "write"}
                         /\ out[i].label = sym}

ErrorsFor(sym) == {i \in SidebarFor(sym) : out[i].kind = "write"}

MainMetricsShown ==
    {i \in 1..Len(out) : out[i].area = "main" /\ out[i].kind = "metric"}

MainCompleted ==
    \E j \in 1..Len(trace) : trace[j].pipe = "main" /\ trace[j].stage = "chart"

\* C1 (as claimed): once the watchlist loop is entered, nothing aborts it: at
\* the end of the run every symbol was fetched, every symbol whose fetch
\* raised has an error message of its own, and every symbol for which the
\* provider returned rows has its quote or its error message in the sidebar.
C1_LoopIsolated ==
    (Terminal /\ WatchReached) =>
        \A i \in 1..Len(stock_symbols) :
            /\ i <= Len(WatchQueries)
            /\ WatchQueries[i].answer = "error" => ErrorsFor(stock_symbols[i]) # {}
            /\ WatchQueries[i].answer = "data" => SidebarFor(stock_symbols[i]) # {}

\* The main-chart query of this run was answered with a table without rows.
MainEmpty ==
    update /\ Len(MainQueries) = 1 /\ MainQueries[1].answer = "empty"

\* C2: when the provider answers the main-chart query with a zero-row table,
\* process_data and add_technical_indicators succeed on it, the run ends
\* with the IndexError calculate_metrics raises, and no metric is displayed.
C2_EmptyMain ==
    MainEmpty =>
        /\ pc \in {"main_process", "main_indicators", "main_metrics", "aborted"}
        /\ MainMetricsShown = {}
        /\ pc = "aborted" =>
             /\ err = "IndexError"
             /\ trace = <<Stage("main", ticker, "fetch"),
                          Stage("main", ticker, "normalize"),
                          Stage("main", ticker, "indicators")>>

C2_Witness ==
    /\ MainEmpty
    /\ pc = "aborted"
    /\ err = "IndexError"
    /\ HasColumn(data, "SMA_20")
    /\ out = <<>>

\* C7: a main-chart query carries the interval fixed by the selected period
\* (1d: 1m, 1wk: 30m, 1mo: 1d, 1y: 1wk, max: 1wk); it names a start/end
\* window of exactly 7 days ending at the time of the call if and only if the
\* period is 1wk, and the period itself otherwise; a watchlist query names
\* period 1d with interval 1m.
C7_Queries ==
    \A i \in 1..Len(queries) :
        LET q == queries[i] IN
        IF q.pipe = "main"
        THEN /\ q.call.ticker = ticker
             /\ q.call.interval =
                    (CASE time_period = "1d" -> "1m"
                       [] time_period = "1wk" -> "30m"
                       [] time_period = "1mo" -> "1d"
                       [] OTHER -> "1wk")
             /\ (q.call.by = "window") <=> (time_period = "1wk")
             /\ q.call.by = "window" =>
                    /\ q.call.end = q.at
                    /\ q.call.end - q.call.start = 7 * 24
                    /\ q.call.period = ""
             /\ q.call.by # "window" =>
                    /\ q.call.by = "period"
                    /\ q.call.period = time_period
        ELSE /\ q.call.by = "period"
             /\ q.call.period = "1d"
             /\ q.call.interval = "1m"

C7_Witness ==
    /\ time_period = "1wk"
    /\ Len(MainQueries) = 1
    /\ MainQueries[1].call.by = "window"
    /\ Len(WatchQueries) >= 1

\* C8 (as claimed): at the end of a run every watchlist symbol has exactly
\* one sidebar output, its quote or its error message.
C8_FourEntries ==
    pc = "done" =>
        \A i \in 1..Len(stock_symbols) : Cardinality(SidebarFor(stock_symbols[i])) = 1

StageOrder(pipe) ==
    IF pipe = "main"
    THEN <<"fetch", "normalize", "indicators", "metrics", "display", "chart">>
    ELSE <<"fetch", "normalize", "metrics", "display">>

Pos(seq, x) == CHOOSE i \in 1..Len(seq) : seq[i] = x

\* Stage b may directly follow stage a: the next stage of the same pipeline,
\* or the fetch of the next pipeline after a stage that can end one.
Follows(a, b) ==
    \/ /\ a.pipe = b.pipe
       /\ a.symbol = b.symbol
       /\ Pos(StageOrder(b.pipe), b.stage) = Pos(StageOrder(a.pipe), a.stage) + 1
    \/ /\ a.pipe = "main" /\ a.stage = "chart"
       /\ b = Stage("watch", stock_symbols[1], "fetch")
    \/ /\ a.pipe = "watch" /\ a.stage \in {"fetch", "normalize", "display"}
       /\ b.pipe = "watch" /\ b.stage = "fetch"
       /\ Pos(stock_symbols, b.symbol) = Pos(stock_symbols, a.symbol) + 1

StagesInOrder ==
    /\ trace # <<>> =>
         trace[1] = IF update THEN Stage("main", ticker, "fetch")
                    ELSE Stage("watch", stock_symbols[1], "fetch")
    /\ \A j \in 1..(Len(trace) - 1) : Follows(trace[j], trace[j + 1])

\* C9 (as claimed): at the end of a run exactly one query was issued for the
\* main ticker if Update was pressed and none otherwise, and exactly one for
\* each of AAPL, GOOGL, AMZN, MSFT, in that order.  Stated for the runs in
\* which no watchlist step raised.
C9_OneQueryEach ==
    (Terminal /\ (pc = "aborted" => ~WatchReached)) =>
        /\ Len(MainQueries) = IF update THEN 1 ELSE 0
        /\ Len(WatchQueries) = Len(stock_symbols)
        /\ \A i \in 1..Len(WatchQueries) : WatchQueries[i].call.ticker = stock_symbols[i]

\* C9 (amended): the stages of a pipeline run in the order fetch, normalize,
\* indicators, metrics, display, each after the previous one completed; the
\* main ticker is queried once when Update is pressed and never otherwise;
\* the watchlist queries are, in order and once each, the first symbols of
\* AAPL, GOOGL, AMZN, MSFT, all four in a run that reaches the end of the
\* script; nothing is asked again after a failure or an empty answer.
C9_QueriesAndOrder ==
    /\ StagesInOrder
    /\ Len(MainQueries) = IF update /\ pc # "main_fetch" THEN 1 ELSE 0
    /\ Len(WatchQueries) <= Len(stock_symbols)
    /\ \A i \in 1..Len(WatchQueries) : WatchQueries[i].call.ticker = stock_symbols[i]
    /\ \A i \in 1..Len(queries) : queries[i].pipe = "main" => i = 1
    /\ pc = "done" => Len(WatchQueries) = Len(stock_symbols)
    /\ Len(SelectSeq(trace, LAMBDA t : t.stage = "fetch")) <= Len(queries)

C9_Witness ==
    /\ pc = "done"
    /\ update
    /\ Len(queries) = 5
    /\ \E i \in 1..Len(WatchQueries) : WatchQueries[i].answer = "empty"
    /\ Len(trace) > 10

\* C10: in a run where Update is pressed, a watchlist symbol is fetched or
\* displayed only after the main pipeline finished its last stage; when a
\* main stage raises the run ends there, with the exception uncaught and no
\* watchlist symbol fetched or displayed.
C10_MainFirst ==
    update =>
        /\ (WatchReached \/ (\E i \in 1..Len(out) : out[i].area = "sidebar")
              \/ pc \in {"watch_fetch", "watch_process", "watch_quote", "about", "done"})
             => MainCompleted
        /\ ~MainCompleted /\ pc = "aborted" =>
             /\ err # ""
             /\ WatchQueries = <<>>
             /\ \A i \in 1..Len(stock_symbols) : SidebarFor(stock_symbols[i]) = {}

C10_Witness ==
    /\ update
    /\ pc = "aborted"
    /\ ~MainCompleted
    /\ err = "KeyError"
    /\ MainMetricsShown # {}
    /\ WatchQueries = <<>>

====
